---- MODULE Spec2Model ----
(***************************************************************************)
(* Model of chaos-profiler: src/src/profile_operators.py driven by         *)
(* src/profile.py.  A ProfileRunSettings is constructed, profile_func      *)
(* starts the tracer, takes snapshot #0, runs the target function          *)
(* run_count times with a snapshot after each call, stops the tracer and   *)
(* returns a ProfileRun, whose __str__ is then rendered.                   *)
(*                                                                         *)
(* Strings that the program builds are modelled as sequences of lines      *)
(* (the pieces between "\n"); a line is a tuple whose first element names  *)
(* the f-string that produced it and whose other elements are the values   *)
(* interpolated into it.  The text of a source line is a sequence of       *)
(* characters.                                                             *)
(***************************************************************************)
EXTENDS Integers, Sequences, FiniteSets, TLC

VARIABLES
    pc,             \* position of the caller / profile_func
    settings,       \* the ProfileRunSettings instance
    heap,           \* live allocated bytes per allocation site (process memory)
    tracing,        \* tracemalloc's process-wide started flag
    i,              \* loop variable of profile_func
    snapshot_runs,  \* local list of profile_func, then ProfileRun.snapshot_runs
    events,         \* calls made on the tracer and on settings.func, in order
    failure,        \* 0, or k when invocation k of settings.func raised
    profile_run,    \* <<>>, or <<the ProfileRun profile_func returned>>
    text            \* str(profile_run) once rendered, as a sequence of lines

vars == <<pc, settings, heap, tracing, i, snapshot_runs, events, failure,
          profile_run, text>>

-----------------------------------------------------------------------------
(* Bounds of the model *)

MaxRunCount == 2
MaxLimit == 2
MaxSize == 2

(* Program constants *)

DefaultLimit == 10
KiB == 1024

-----------------------------------------------------------------------------
(* The profiled process: files and allocation sites *)

LettersFile == "letters.py"
NumbersFile == "numbers.py"
StringFile == "<string>"
UnknownFile == "<unknown>"
TracemallocFile == "tracemalloc.py"
ImportlibFile == "<frozen importlib._bootstrap>"

\* an allocation site is the single frame (filename, lineno) of its traceback
Sites == { <<LettersFile, 1>>, <<LettersFile, 2>>, <<NumbersFile, 1>>,
           <<StringFile, 1>>, <<UnknownFile, 0>> }

\* Python's ordering of the file names used (str comparison)
FileOrd(f) ==
    CASE f = StringFile -> 1
      [] f = UnknownFile -> 2
      [] f = ImportlibFile -> 3
      [] f = LettersFile -> 4
      [] f = NumbersFile -> 5
      [] f = TracemallocFile -> 6

\* Frame.__lt__: tuples (filename, lineno) compared lexicographically
FrameLess(a, b) ==
    \/ FileOrd(a[1]) < FileOrd(b[1])
    \/ a[1] = b[1] /\ a[2] < b[2]

\* the settings values a caller may pass (dataclass fields, lines 16-22)
KeyTypes == {"FILENAME", "LINE_NUM", "TRACEBACK"}
FileNameLists == { <<>>, <<LettersFile>>, <<LettersFile, NumbersFile>> }
RunCounts == (-1)..MaxRunCount
Limits == (-1)..MaxLimit

NoSettings ==
    [func_file_names |-> <<>>, run_count |-> 0, key_type |-> "LINE_NUM",
     limit |-> 0, exclusive_filter |-> TRUE]

EmptyHeap == [s \in Sites |-> 0]
InitHeaps == { EmptyHeap,
               [s \in Sites |-> IF s = <<UnknownFile, 0>> THEN 1 ELSE 0] }

-----------------------------------------------------------------------------
(* tracemalloc, as used by the program *)

\* tracemalloc.take_snapshot(): one trace per live block
take_snapshot(h) ==
    { [frame |-> s, size |-> h[s]] : s \in { t \in Sites : h[t] > 0 } }

\* Filter._match_frame_impl with a literal pattern and lineno None
FilterMatches(pattern, trace) == trace.frame[1] = pattern

SeqRange(s) == { s[k] : k \in 1..Len(s) }

\* Snapshot.filter_traces(filters), filters a sequence of <<inclusive, pattern>>
filter_traces(snapshot, filters) ==
    LET include == { f \in SeqRange(filters) : f[1] }
        exclude == { f \in SeqRange(filters) : ~f[1] }
    IN  IF filters = <<>> THEN snapshot
        ELSE { t \in snapshot :
                 /\ (include # {} => \E f \in include : FilterMatches(f[2], t))
                 /\ ~(\E f \in exclude : FilterMatches(f[2], t)) }

\* Snapshot._group_by: the traceback a trace is grouped under
GroupKey(trace, key_type) ==
    IF key_type = "filename" THEN <<trace.frame[1], 0>> ELSE trace.frame

RECURSIVE SumSizes(_)
SumSizes(S) ==
    IF S = {} THEN 0
    ELSE LET t == CHOOSE x \in S : TRUE IN t.size + SumSizes(S \ {t})

GroupKeys(snapshot, key_type) == { GroupKey(t, key_type) : t \in snapshot }

GroupOf(snapshot, key_type, g) ==
    { t \in snapshot : GroupKey(t, key_type) = g }

GroupSize(snapshot, key_type, g) == SumSizes(GroupOf(snapshot, key_type, g))

GroupCount(snapshot, key_type, g) == Cardinality(GroupOf(snapshot, key_type, g))

\* Statistic._sort_key: (size, count, traceback)
StatLess(a, b) ==
    \/ a.size < b.size
    \/ a.size = b.size /\ a.count < b.count
    \/ a.size = b.size /\ a.count = b.count /\ FrameLess(a.traceback, b.traceback)

Abs(x) == IF x < 0 THEN -x ELSE x

\* StatisticDiff._sort_key: (abs(size_diff), size, abs(count_diff), count, traceback)
DiffLess(a, b) ==
    \/ Abs(a.size_diff) < Abs(b.size_diff)
    \/ /\ Abs(a.size_diff) = Abs(b.size_diff)
       /\ \/ a.size < b.size
          \/ /\ a.size = b.size
             /\ \/ Abs(a.count_diff) < Abs(b.count_diff)
                \/ /\ Abs(a.count_diff) = Abs(b.count_diff)
                   /\ \/ a.count < b.count
                      \/ a.count = b.count /\ FrameLess(a.traceback, b.traceback)

\* list.sort(reverse=True, key=Statistic._sort_key); tracebacks are distinct
RECURSIVE SortStats(_)
SortStats(S) ==
    IF S = {} THEN <<>>
    ELSE LET m == CHOOSE x \in S : \A y \in S \ {x} : StatLess(y, x)
         IN  <<m>> \o SortStats(S \ {m})

\* list.sort(reverse=True, key=StatisticDiff._sort_key)
RECURSIVE SortDiffs(_)
SortDiffs(S) ==
    IF S = {} THEN <<>>
    ELSE LET m == CHOOSE x \in S : \A y \in S \ {x} : DiffLess(y, x)
         IN  <<m>> \o SortDiffs(S \ {m})

\* Snapshot.statistics(key_type)
statistics(snapshot, key_type) ==
    SortStats({ [traceback |-> g,
                size |-> GroupSize(snapshot, key_type, g),
                count |-> GroupCount(snapshot, key_type, g)] :
               g \in GroupKeys(snapshot, key_type) })

\* new.compare_to(old, key_type): size_diff = size(new) - size(old) per group
compare_to(new, old, key_type) ==
    SortDiffs({ [traceback |-> g,
                size |-> GroupSize(new, key_type, g),
                size_diff |-> GroupSize(new, key_type, g)
                              - GroupSize(old, key_type, g),
                count |-> GroupCount(new, key_type, g),
                count_diff |-> GroupCount(new, key_type, g)
                               - GroupCount(old, key_type, g)] :
               g \in GroupKeys(new, key_type) \cup GroupKeys(old, key_type) })

-----------------------------------------------------------------------------
(* linecache and Python built-ins, as used by the program *)

None == <<"<None>">>
EmptyStr == <<>>
EmptyLine == <<"">>

\* linecache.getline(filename, lineno): the line with its indentation and
\* newline, or '' when the file cannot be read
getline(filename, lineno) ==
    CASE filename = LettersFile /\ lineno = 1 -> <<" ", "a", " ", "b", "\n">>
      [] filename = LettersFile /\ lineno = 2 -> <<"\t", "c", "\n">>
      [] filename = NumbersFile /\ lineno = 1 -> <<"n", "\n">>
      [] OTHER -> EmptyStr

IsSpace(c) == c \in {" ", "\t", "\n"}

\* str.strip()
RECURSIVE strip(_)
strip(str) ==
    IF str = <<>> THEN <<>>
    ELSE IF IsSpace(Head(str)) THEN strip(Tail(str))
    ELSE IF IsSpace(str[Len(str)]) THEN strip(SubSeq(str, 1, Len(str) - 1))
    ELSE str

\* lst[:k]
SliceTo(lst, k) ==
    IF k >= 0 THEN SubSeq(lst, 1, IF k < Len(lst) THEN k ELSE Len(lst))
    ELSE SubSeq(lst, 1, Len(lst) + k)

\* lst[k:]
SliceFrom(lst, k) ==
    IF k >= 0 THEN SubSeq(lst, k + 1, Len(lst))
    ELSE SubSeq(lst, (IF Len(lst) + k > 0 THEN Len(lst) + k ELSE 0) + 1, Len(lst))

\* "\n".join(texts), each text a sequence of lines
RECURSIVE Join(_)
Join(texts) ==
    IF texts = <<>> THEN <<EmptyLine>>
    ELSE IF Len(texts) = 1 THEN texts[1]
    ELSE texts[1] \o Join(Tail(texts))

\* TraceKeyType(...).value
TraceKeyTypeValue(name) ==
    CASE name = "FILENAME" -> "filename"
      [] name = "LINE_NUM" -> "lineno"
      [] name = "TRACEBACK" -> "traceback"

-----------------------------------------------------------------------------
(* StatisticRun and StatisticDiffRun *)

StatisticRun(position, statistic) ==
    [position |-> position + 1, statistic |-> statistic]

StatisticRun_file_trace(self) ==
    <<"#: KiB -> : (traces: )", self.position, <<self.statistic.size, KiB>>,
      self.statistic.traceback[1], self.statistic.traceback[2], 1>>

StatisticRun_line_trace(self) ==
    LET line == strip(getline(self.statistic.traceback[1],
                              self.statistic.traceback[2]))
    IN  IF line # None THEN <<"\t\t", line>> ELSE None

StatisticRun_str(self) ==
    IF StatisticRun_line_trace(self) # None
    THEN <<StatisticRun_file_trace(self), StatisticRun_line_trace(self)>>
    ELSE <<StatisticRun_file_trace(self)>>

StatisticDiffRun(position, statistic) ==
    [position |-> position + 1, statistic |-> statistic]

StatisticDiffRun_file_trace(self) ==
    <<"#: KiB -> : (traces: )", self.position, <<self.statistic.size_diff, KiB>>,
      self.statistic.traceback[1], self.statistic.traceback[2], 1>>

StatisticDiffRun_line_trace(self) ==
    LET line == strip(getline(self.statistic.traceback[1],
                              self.statistic.traceback[2]))
    IN  IF line # None THEN <<"\t\t", line>> ELSE None

StatisticDiffRun_str(self) ==
    IF StatisticDiffRun_line_trace(self) # None
    THEN <<StatisticDiffRun_file_trace(self), StatisticDiffRun_line_trace(self)>>
    ELSE <<StatisticDiffRun_file_trace(self)>>

-----------------------------------------------------------------------------
(* SnapshotRun *)

SnapshotRun(iteration, snapshot, stg) ==
    [iteration |-> iteration, snapshot |-> snapshot, settings |-> stg]

SnapshotRun_inclusive_filtered(self) ==
    filter_traces(self.snapshot,
                  << <<FALSE, TracemallocFile>>, <<FALSE, ImportlibFile>>,
                     <<FALSE, UnknownFile>> >>)

SnapshotRun_exclusive_filtered(self) ==
    filter_traces(self.snapshot,
                  [k \in 1..Len(self.settings.func_file_names) |->
                     <<TRUE, self.settings.func_file_names[k]>>])

SnapshotRun_filtered_snapshot(self) ==
    IF self.settings.exclusive_filter
    THEN SnapshotRun_exclusive_filtered(self)
    ELSE SnapshotRun_inclusive_filtered(self)

SnapshotRun_grouped(self) ==
    statistics(SnapshotRun_filtered_snapshot(self),
               TraceKeyTypeValue(self.settings.key_type))

SnapshotRun_top_stats(self) ==
    LET sl == SliceTo(SnapshotRun_grouped(self), self.settings.limit)
    IN  [k \in 1..Len(sl) |-> StatisticRun(k - 1, sl[k])]

SnapshotRun_remaining_stats(self) ==
    LET sl == SliceFrom(SnapshotRun_grouped(self), self.settings.limit)
    IN  [k \in 1..Len(sl) |-> StatisticRun(k - 1, sl[k])]

RECURSIVE SumStatSizes(_)
SumStatSizes(stats) ==
    IF stats = <<>> THEN 0
    ELSE Head(stats).statistic.size + SumStatSizes(Tail(stats))

\* stats is a list, never None: "stats is not None" is true
SnapshotRun_total_size_line(stats) ==
    IF TRUE /\ Len(stats) > 0
    THEN <<SumStatSizes(stats), KiB, " KiB">>
    ELSE EmptyStr

SnapshotRun_top_stats_summary(self) ==
    SnapshotRun_total_size_line(SnapshotRun_top_stats(self))

SnapshotRun_remaining_stats_summary(self) ==
    SnapshotRun_total_size_line(SnapshotRun_remaining_stats(self))

SnapshotRun_str(self) ==
    LET top == SnapshotRun_top_stats(self)
        title == IF self.iteration # 0
                 THEN <<EmptyLine, <<"## Snapshot Run #", self.iteration>>>>
                 ELSE <<EmptyLine, <<"## Snapshot Before Run">>>>
    IN  Join(<< title,
                << <<"### Top Memory Hogs:", self.settings.limit>> >>,
                Join([k \in 1..Len(top) |-> StatisticRun_str(top[k])]),
                <<EmptyLine, <<"### Summary:">>>>,
                << <<"\tTop Total Size: ", SnapshotRun_top_stats_summary(self)>> >>,
                << <<"\tRemaining Total Size: ",
                     SnapshotRun_remaining_stats_summary(self)>> >> >>)

-----------------------------------------------------------------------------
(* SnapshotDiffRun *)

SnapshotDiffRun(iterations, diff, limit) ==
    [iterations |-> iterations, diff |-> diff, limit |-> limit]

SnapshotDiffRun_top_stats(self) ==
    LET sl == SliceTo(self.diff, self.limit)
    IN  [k \in 1..Len(sl) |-> StatisticDiffRun(k - 1, sl[k])]

SnapshotDiffRun_remaining_stats(self) ==
    LET sl == SliceFrom(self.diff, self.limit)
    IN  [k \in 1..Len(sl) |-> StatisticDiffRun(k - 1, sl[k])]

RECURSIVE SumStatDiffs(_)
SumStatDiffs(stats) ==
    IF stats = <<>> THEN 0
    ELSE Head(stats).statistic.size_diff + SumStatDiffs(Tail(stats))

\* stats is a list, never None: "stats is not None" is true
SnapshotDiffRun_total_size_line(stats) ==
    IF TRUE /\ Len(stats) > 0
    THEN <<SumStatDiffs(stats), KiB, " KiB">>
    ELSE EmptyStr

SnapshotDiffRun_top_stats_summary(self) ==
    SnapshotDiffRun_total_size_line(SnapshotDiffRun_top_stats(self))

SnapshotDiffRun_remaining_stats_summary(self) ==
    SnapshotDiffRun_total_size_line(SnapshotDiffRun_remaining_stats(self))

SnapshotDiffRun_str(self) ==
    LET top == SnapshotDiffRun_top_stats(self)
    IN  Join(<< <<EmptyLine, <<"## Snapshot Comparison between # and #",
                               self.iterations[1], self.iterations[2]>>>>,
                << <<"### Top Memory Hogs:", self.limit>> >>,
                Join([k \in 1..Len(top) |-> StatisticDiffRun_str(top[k])]),
                <<EmptyLine, <<"### Summary:">>>>,
                << <<"\tTop Total Size: ",
                     SnapshotDiffRun_top_stats_summary(self)>> >>,
                << <<"\tRemaining Total Size: ",
                     SnapshotDiffRun_remaining_stats_summary(self)>> >> >>)

-----------------------------------------------------------------------------
(* ProfileRun *)

FuncName == "<function get_letters_and_numbers>"

ProfileRun(runs, func_file_names, func_name) ==
    [snapshot_runs |-> runs, func_file_names |-> func_file_names,
     func_name |-> func_name]

ProfileRun_compare(first, second) ==
    SnapshotDiffRun(<<first.iteration, second.iteration>>,
                    compare_to(SnapshotRun_filtered_snapshot(first),
                               SnapshotRun_filtered_snapshot(second),
                               TraceKeyTypeValue(first.settings.key_type)),
                    DefaultLimit)

\* the loop appends one comparison for every index i != 0 (0-based)
ProfileRun_comparisons(self) ==
    [k \in 1..(Len(self.snapshot_runs) - 1) |->
        ProfileRun_compare(self.snapshot_runs[k], self.snapshot_runs[k + 1])]

ProfileRun_str(self) ==
    LET stg == self.snapshot_runs[1].settings
        runs == self.snapshot_runs
        cmps == ProfileRun_comparisons(self)
    IN  Join(<< << <<"# Profile Run For ", self.func_name>> >>,
                << <<"CODE FENCE">> >>,
                << <<"SETTINGS">>, EmptyLine >>,
                << <<"- Memory Limit: ", stg.limit>> >>,
                << <<"- Key Type: ", stg.key_type>> >>,
                << <<"- Exclusive Filter Set: ", stg.exclusive_filter>> >>,
                IF stg.exclusive_filter
                THEN << <<"- File Filters Applied: ", stg.func_file_names>> >>
                ELSE <<EmptyLine>>,
                << <<"CODE FENCE">> >>,
                Join([k \in 1..Len(runs) |-> SnapshotRun_str(runs[k])]),
                << <<"# Profile Comparisons For ", self.func_name>> >>,
                Join([k \in 1..Len(runs) |-> SnapshotRun_str(runs[k])]),
                << EmptyLine, <<"# Profile Comparisons For ", self.func_name>> >>,
                Join([k \in 1..Len(cmps) |-> SnapshotDiffRun_str(cmps[k])]) >>)

-----------------------------------------------------------------------------
(* The run: src/profile.py and profile_func *)

Init ==
    /\ pc = "construct"
    /\ settings = NoSettings
    /\ heap \in InitHeaps
    /\ tracing = FALSE
    /\ i = 0
    /\ snapshot_runs = <<>>
    /\ events = <<>>
    /\ failure = 0
    /\ profile_run = <<>>
    /\ text = <<>>

\* ProfileRunSettings(...): the dataclass __init__ stores its arguments
Construct ==
    /\ pc = "construct"
    /\ \E names \in FileNameLists, rc \in RunCounts, kt \in KeyTypes,
          lim \in Limits, ex \in BOOLEAN :
          settings' = [func_file_names |-> names, run_count |-> rc,
                       key_type |-> kt, limit |-> lim, exclusive_filter |-> ex]
    /\ pc' = "start"
    /\ UNCHANGED <<heap, tracing, i, snapshot_runs, events, failure,
                   profile_run, text>>

\* tracemalloc.start()
Start ==
    /\ pc = "start"
    /\ tracing' = TRUE
    /\ events' = Append(events, <<"start", 0>>)
    /\ pc' = "initial_snapshot"
    /\ UNCHANGED <<settings, heap, i, snapshot_runs, failure, profile_run, text>>

\* initial_snapshot = SnapshotRun(0, take_snapshot(), settings); the list
InitialSnapshot ==
    /\ pc = "initial_snapshot"
    /\ tracing
    /\ snapshot_runs' = <<SnapshotRun(0, take_snapshot(heap), settings)>>
    /\ events' = Append(events, <<"snapshot", 0>>)
    /\ i' = 1
    /\ pc' = "loop"
    /\ UNCHANGED <<settings, heap, tracing, failure, profile_run, text>>

\* what one call of the target function may do to the heap
FuncEffects(h) ==
    {h} \cup { [h EXCEPT ![s] = h[s] + 1] : s \in { t \in Sites : h[t] < MaxSize } }
        \cup { [h EXCEPT ![s] = h[s] - 1] : s \in { t \in Sites : h[t] > 0 } }

\* settings.func() returns
CallFunc ==
    /\ pc = "loop"
    /\ i <= settings.run_count
    /\ heap' \in FuncEffects(heap)
    /\ events' = Append(events, <<"call", i>>)
    /\ pc' = "loop_snapshot"
    /\ UNCHANGED <<settings, tracing, i, snapshot_runs, failure, profile_run, text>>

\* variant of CallFuncRaises with the call wrapped in try/finally stop()
CallFuncRaises_Finally ==
    /\ pc = "loop"
    /\ i <= settings.run_count
    /\ events' = Append(Append(events, <<"call", i>>), <<"stop", 0>>)
    /\ failure' = i
    /\ tracing' = FALSE
    /\ pc' = "raised"
    /\ UNCHANGED <<settings, heap, i, snapshot_runs, profile_run, text>>

\* settings.func() raises: nothing in profile_func catches it
CallFuncRaises ==
    /\ pc = "loop"
    /\ i <= settings.run_count
    /\ events' = Append(events, <<"call", i>>)
    /\ failure' = i
    /\ pc' = "raised"
    /\ UNCHANGED <<settings, heap, tracing, i, snapshot_runs, profile_run, text>>

\* variant of LoopSnapshot that overwrites the last entry instead of appending
LoopSnapshot_Overwrite ==
    /\ pc = "loop_snapshot"
    /\ tracing
    /\ snapshot_runs' = [snapshot_runs EXCEPT ![Len(snapshot_runs)] =
                            SnapshotRun(i, take_snapshot(heap), settings)]
    /\ events' = Append(events, <<"snapshot", i>>)
    /\ i' = i + 1
    /\ pc' = "loop"
    /\ UNCHANGED <<settings, heap, tracing, failure, profile_run, text>>

\* snapshot_runs.append(SnapshotRun(i, take_snapshot(), settings)); next i
LoopSnapshot ==
    /\ pc = "loop_snapshot"
    /\ tracing
    /\ snapshot_runs' = Append(snapshot_runs,
                               SnapshotRun(i, take_snapshot(heap), settings))
    /\ events' = Append(events, <<"snapshot", i>>)
    /\ i' = i + 1
    /\ pc' = "loop"
    /\ UNCHANGED <<settings, heap, tracing, failure, profile_run, text>>

\* variant of Stop for a loop over range(1, run_count)
Stop_OneRunShort ==
    /\ pc = "loop"
    /\ i >= settings.run_count
    /\ tracing' = FALSE
    /\ events' = Append(events, <<"stop", 0>>)
    /\ pc' = "return"
    /\ UNCHANGED <<settings, heap, i, snapshot_runs, failure, profile_run, text>>

\* range exhausted: tracemalloc.stop()
Stop ==
    /\ pc = "loop"
    /\ i > settings.run_count
    /\ tracing' = FALSE
    /\ events' = Append(events, <<"stop", 0>>)
    /\ pc' = "return"
    /\ UNCHANGED <<settings, heap, i, snapshot_runs, failure, profile_run, text>>

\* return ProfileRun(snapshot_runs, settings.func_file_names, str(settings.func))
Return ==
    /\ pc = "return"
    /\ profile_run' = <<ProfileRun(snapshot_runs, settings.func_file_names,
                                   FuncName)>>
    /\ pc' = "print"
    /\ UNCHANGED <<settings, heap, tracing, i, snapshot_runs, events, failure,
                   text>>

\* print(str(profile_run))
PrintReport ==
    /\ pc = "print"
    /\ text' = ProfileRun_str(profile_run[1])
    /\ pc' = "done"
    /\ UNCHANGED <<settings, heap, tracing, i, snapshot_runs, events, failure,
                   profile_run>>

Next ==
    \/ Construct
    \/ Start
    \/ InitialSnapshot
    \/ CallFunc
    \/ CallFuncRaises
    \/ LoopSnapshot
    \/ Stop
    \/ Return
    \/ PrintReport

Spec == Init /\ [][Next]_vars

-----------------------------------------------------------------------------
(* Properties *)

RECURSIVE LoopEvents(_)
LoopEvents(n) ==
    IF n <= 0 THEN <<>>
    ELSE LoopEvents(n - 1) \o << <<"call", n>>, <<"snapshot", n>> >>

ExpectedEvents(R) ==
    << <<"start", 0>>, <<"snapshot", 0>> >> \o LoopEvents(R) \o << <<"stop", 0>> >>

IsPrefix(a, b) == Len(a) <= Len(b) /\ a = SubSeq(b, 1, Len(a))

Positions(stats) == [k \in 1..Len(stats) |-> stats[k].position]

IsOneToN(ranks, N) == Len(ranks) = N /\ \A n \in 1..N : ranks[n] = n

IsSnapshotTitle(line) ==
    line[1] \in {"## Snapshot Run #", "## Snapshot Before Run"}

IsComparisonSection(line) ==
    line[1] \in {"# Profile Comparisons For ",
                 "## Snapshot Comparison between # and #"}

\* settings as the specification's validation would admit them
InRange == settings.run_count >= 0 /\ settings.limit >= 0

\* C1: for run_count = R >= 0 the returned ProfileRun has R + 1 snapshot runs
\* whose iterations are 0, 1, ..., R in list order, and R comparisons.
C1_SnapshotCounts ==
    (profile_run # <<>> /\ settings.run_count >= 0) =>
        LET p == profile_run[1]
        IN  /\ Len(p.snapshot_runs) = settings.run_count + 1
            /\ \A k \in 1..Len(p.snapshot_runs) :
                  p.snapshot_runs[k].iteration = k - 1
            /\ Len(ProfileRun_comparisons(p)) = settings.run_count

C1_Witness ==
    /\ profile_run # <<>>
    /\ settings.run_count = 2
    /\ Len(profile_run[1].snapshot_runs) = 3
    /\ Len(ProfileRun_comparisons(profile_run[1])) = 2

\* C2: when the target function always returns, the tracer and the function are
\* called in the order start, snapshot #0, then (call i, snapshot #i) for
\* i = 1..run_count, then stop; the tracer is started exactly between start and
\* stop, and once profile_func is past stop the sequence is complete.
C2_EventOrder ==
    failure = 0 =>
        /\ IsPrefix(events, ExpectedEvents(settings.run_count))
        /\ pc \in {"return", "print", "done"} =>
              events = ExpectedEvents(settings.run_count)
        /\ tracing <=> (events # <<>> /\ events[Len(events)] # <<"stop", 0>>)

C2_Witness ==
    /\ pc = "done"
    /\ settings.run_count = 2
    /\ events = << <<"start", 0>>, <<"snapshot", 0>>, <<"call", 1>>,
                   <<"snapshot", 1>>, <<"call", 2>>, <<"snapshot", 2>>,
                   <<"stop", 0>> >>

\* C3: comparisons[i] reports a positive size_diff for every group that is
\* larger in snapshot i+1 than in snapshot i, and a negative one for every
\* group that is smaller.
C3_PositiveDeltaIsGrowth ==
    (profile_run # <<>> /\ InRange) =>
        LET p == profile_run[1]
            cmps == ProfileRun_comparisons(p)
        IN  \A k \in 1..Len(cmps) :
              LET a == SnapshotRun_filtered_snapshot(p.snapshot_runs[k])
                  b == SnapshotRun_filtered_snapshot(p.snapshot_runs[k + 1])
                  key == TraceKeyTypeValue(settings.key_type)
              IN  /\ cmps[k].iterations = <<k - 1, k>>
                  /\ \A n \in 1..Len(cmps[k].diff) :
                        LET d == cmps[k].diff[n]
                            before == GroupSize(a, key, d.traceback)
                            after == GroupSize(b, key, d.traceback)
                        IN  /\ after > before => d.size_diff > 0
                            /\ after < before => d.size_diff < 0

\* C4: for every view and limit >= 0, top_stats and remaining_stats together
\* hold the N grouped entries and their positions, top first, are 1..N.
C4_RanksGapFree ==
    InRange =>
        /\ \A k \in 1..Len(snapshot_runs) :
              LET v == snapshot_runs[k]
                  top == SnapshotRun_top_stats(v)
                  rest == SnapshotRun_remaining_stats(v)
                  N == Len(SnapshotRun_grouped(v))
              IN  /\ Len(top) + Len(rest) = N
                  /\ IsOneToN(Positions(top) \o Positions(rest), N)
        /\ profile_run # <<>> =>
              \A k \in 1..Len(ProfileRun_comparisons(profile_run[1])) :
                 LET v == ProfileRun_comparisons(profile_run[1])[k]
                     top == SnapshotDiffRun_top_stats(v)
                     rest == SnapshotDiffRun_remaining_stats(v)
                     N == Len(v.diff)
                 IN  /\ Len(top) + Len(rest) = N
                     /\ IsOneToN(Positions(top) \o Positions(rest), N)

\* C5: with settings.limit = 0 every SnapshotRun and every SnapshotDiffRun of
\* the ProfileRun has no top_stats, an empty top_stats_summary, and all of its
\* entries in remaining_stats.
C5_LimitZeroEmptiesTop ==
    (profile_run # <<>> /\ InRange /\ settings.limit = 0) =>
        LET p == profile_run[1]
            cmps == ProfileRun_comparisons(p)
        IN  /\ \A k \in 1..Len(p.snapshot_runs) :
                  LET v == p.snapshot_runs[k]
                  IN  /\ SnapshotRun_top_stats(v) = <<>>
                      /\ SnapshotRun_top_stats_summary(v) = EmptyStr
                      /\ Len(SnapshotRun_remaining_stats(v))
                           = Len(SnapshotRun_grouped(v))
            /\ \A k \in 1..Len(cmps) :
                  /\ SnapshotDiffRun_top_stats(cmps[k]) = <<>>
                  /\ SnapshotDiffRun_top_stats_summary(cmps[k]) = EmptyStr
                  /\ Len(SnapshotDiffRun_remaining_stats(cmps[k]))
                       = Len(cmps[k].diff)

\* C6: with exclusive_filter set, every trace that survives filtered_snapshot
\* comes from a file named in settings.func_file_names (whatever the list,
\* the empty one included), and is a trace of the raw snapshot.
C6_ExclusiveIsAllowList ==
    settings.exclusive_filter =>
        \A k \in 1..Len(snapshot_runs) :
            /\ SnapshotRun_filtered_snapshot(snapshot_runs[k])
                 \subseteq snapshot_runs[k].snapshot
            /\ \A t \in SnapshotRun_filtered_snapshot(snapshot_runs[k]) :
                  t.frame[1] \in SeqRange(settings.func_file_names)

\* C7: the rendered report holds each snapshot view exactly once, and no
\* snapshot rendering after the first comparison-related line.
C7_SnapshotsRenderedOnce ==
    (pc = "done" /\ InRange) =>
        /\ Cardinality({ n \in 1..Len(text) : IsSnapshotTitle(text[n]) })
             = Len(profile_run[1].snapshot_runs)
        /\ \A m, n \in 1..Len(text) :
              (IsComparisonSection(text[m]) /\ IsSnapshotTitle(text[n])) => n < m

\* C8: the tracer is never started (and the target never called) with
\* settings whose run_count or limit is negative.
C8_NoRunWithInvalidSettings ==
    (tracing \/ events # <<>>) =>
        (settings.run_count >= 0 /\ settings.limit >= 0)

\* C9: when invocation k of the target function fails, the failure reaches
\* the caller: the calls made are start, snapshot #0, (call, snapshot) for
\* 1..k-1 and call k, and nothing after; only snapshots #0..#k-1 exist, no
\* ProfileRun is returned or rendered, and the tracer is still started.
C9_FailurePropagates ==
    failure # 0 =>
        /\ pc = "raised"
        /\ failure \in 1..settings.run_count
        /\ events = << <<"start", 0>>, <<"snapshot", 0>> >>
                      \o LoopEvents(failure - 1) \o << <<"call", failure>> >>
        /\ Len(snapshot_runs) = failure
        /\ \A k \in 1..Len(snapshot_runs) : snapshot_runs[k].iteration < failure
        /\ profile_run = <<>>
        /\ text = <<>>
        /\ tracing

C9_Witness ==
    /\ failure = 2
    /\ pc = "raised"
    /\ Len(snapshot_runs) = 2

\* C10: an entry whose source line cannot be resolved (getline yields '')
\* renders as its file-trace line alone.
C10_MissingLineOmitted ==
    (InRange /\ settings.func_file_names # <<>>) =>
    /\ \A k \in 1..Len(snapshot_runs) :
          \A n \in 1..Len(SnapshotRun_top_stats(snapshot_runs[k])) :
             LET e == SnapshotRun_top_stats(snapshot_runs[k])[n]
             IN  getline(e.statistic.traceback[1], e.statistic.traceback[2])
                   = EmptyStr
                 => StatisticRun_str(e) = <<StatisticRun_file_trace(e)>>
    /\ profile_run # <<>> =>
          \A k \in 1..Len(ProfileRun_comparisons(profile_run[1])) :
             LET top == SnapshotDiffRun_top_stats(
                            ProfileRun_comparisons(profile_run[1])[k])
             IN  \A n \in 1..Len(top) :
                    getline(top[n].statistic.traceback[1],
                            top[n].statistic.traceback[2]) = EmptyStr
                    => StatisticDiffRun_str(top[n])
                         = <<StatisticDiffRun_file_trace(top[n])>>

====
